---- MODULE Spec2Model ----
(***************************************************************************)
(* A model of hardliner (src/hardliner/src/lib.rs): the address -> source  *)
(* resolver built on DWARF.  The model follows the code's own structure:   *)
(*   read_ranges / WrapRangeIter      the range iterator adapter           *)
(*   Context::new                     the Light Context builder            *)
(*   Context::find_location(_inner)   the location resolver                *)
(*   Context::parse_functions, FullContext::query, IterFrames::next        *)
(*   Function::stack_variables_at, StackVarIter::next                      *)
(* Addresses are u64 in the code; the model keeps the wrap-around of the   *)
(* unsigned type on a word of AddrBits bits.                               *)
(***************************************************************************)
EXTENDS Integers, Sequences, FiniteSets, TLC

VARIABLES
    build,        \* the cargo profile the crate was compiled with
    entry,        \* the DIE handed to read_ranges
    base_addr,    \* the base address handed to read_ranges
    ranges_ret,   \* what read_ranges returned
    range_out,    \* what WrapRangeIter::next returned, call after call
    file_units,   \* the compilation units of .debug_info, in document order
    debug_line,   \* the line programs of .debug_line, by offset
    ctx_status,   \* "unbuilt", then how Context::new ended: "ok" or "panic"
    units,        \* Context.units
    unit_ranges,  \* Context.unit_ranges
    loc_ret,      \* the last find_location call: its probe and its result
    full_status,  \* "light", then how parse_functions ended: "ok" or "panic"
    funcs,        \* FullContext.funcs: the elements of the interval tree
    it,           \* the IterFrames of the last query: funcs and next
    query,        \* the last query: its probe and its sorted matches
    frames,       \* what IterFrames::next returned, call after call
    var_it,       \* the StackVarIter of the last stack_variables_at call
    var_out,      \* what StackVarIter::next returned, call after call
    str_call      \* the str_attr call under way: where its recursion stands

rangeVars == <<entry, base_addr, ranges_ret, range_out>>
lightVars == <<file_units, debug_line, ctx_status, units, unit_ranges, loc_ret>>

frameVars == <<full_status, funcs, it, query, frames>>
varVars == <<var_it, var_out>>
strVars == <<str_call>>

vars == <<build, entry, base_addr, ranges_ret, range_out,
          file_units, debug_line, ctx_status, units, unit_ranges, loc_ret,
          full_status, funcs, it, query, frames, var_it, var_out, str_call>>

(***************************************************************************)
(* Bounds of the model.                                                    *)
(***************************************************************************)
\* width of an address word (u64 in the code)
AddrBits == 3
\* how many times an exhausted iterator is polled again
MaxPolls == 2

Modulus == 2 ^ AddrBits
Addrs == 0 .. (Modulus - 1)

(***************************************************************************)
(* Option<T> and the attribute values of gimli the code matches on.        *)
(***************************************************************************)
None == [some |-> FALSE]
Some(v) == [some |-> TRUE, val |-> v]

Range(b, e) == [begin |-> b, end |-> e]

Addr(a) == [form |-> "Addr", addr |-> a]
Udata(x) == [form |-> "Udata", udata |-> x]
DebugRangesRef(rr) == [form |-> "DebugRangesRef", rr |-> rr]
Flag == [form |-> "Flag"]

\* entry.attr_value(name): the attribute when the DIE has it
attr_value(e, name) ==
    IF name \in DOMAIN e.attrs THEN Some(e.attrs[name]) ELSE None

\* the two profiles of cargo: dev checks debug assertions and integer
\* overflow, release checks neither
Builds ==
    { [debug_assertions |-> TRUE, overflow_checks |-> TRUE],
      [debug_assertions |-> FALSE, overflow_checks |-> FALSE] }

(***************************************************************************)
(* read_ranges and WrapRangeIter.                                          *)
(***************************************************************************)
\* debug_ranges.ranges(rr, addr_size, base_addr): the entries of a range
\* list, each offset by the base address of the unit
ranges(rr, base) ==
    [i \in 1 .. Len(rr) |->
        Range((rr[i].begin + base) % Modulus, (rr[i].end + base) % Modulus)]

\* low_pc + x on u64: a panic when overflow is checked, a wrap otherwise
add_u64(a, x, b) ==
    IF a + x < Modulus THEN Some(a + x)
    ELSE IF b.overflow_checks THEN None
    ELSE Some((a + x) % Modulus)

\* read_ranges with the offset form of high_pc taken as the end itself
read_ranges_no_add(e, base, b) ==
    LET rr == attr_value(e, "DW_AT_ranges")
        lo == attr_value(e, "DW_AT_low_pc")
        hi == attr_value(e, "DW_AT_high_pc")
    IN  IF ~rr.some
        THEN IF ~(lo.some /\ lo.val.form = "Addr")
             THEN [ret |-> "None"]
             ELSE IF hi.some /\ hi.val.form = "Addr"
             THEN [ret |-> "Some", kind |-> "Synthetic",
                   items |-> <<Range(lo.val.addr, hi.val.addr)>>]
             ELSE IF hi.some /\ hi.val.form = "Udata"
             THEN [ret |-> "Some", kind |-> "Synthetic",
                   items |-> <<Range(lo.val.addr, hi.val.udata)>>]
             ELSE [ret |-> "None"]
        ELSE IF rr.val.form = "DebugRangesRef"
        THEN [ret |-> "Some", kind |-> "Real", items |-> ranges(rr.val.rr, base)]
        ELSE [ret |-> "panic"]

\* read_ranges(entry, debug_ranges, addr_size, base_addr):
\*   ret = "None"   Ok(None), no range information
\*   ret = "Some"   Ok(Some(iter)), items the ranges the iterator still holds
\*   ret = "panic"  unreachable!() or an overflow caught by the build
read_ranges(e, base, b) ==
    LET rr == attr_value(e, "DW_AT_ranges")
        lo == attr_value(e, "DW_AT_low_pc")
        hi == attr_value(e, "DW_AT_high_pc")
    IN  IF ~rr.some
        THEN IF ~(lo.some /\ lo.val.form = "Addr")
             THEN [ret |-> "None"]
             ELSE IF hi.some /\ hi.val.form = "Addr"
             THEN [ret |-> "Some", kind |-> "Synthetic",
                   items |-> <<Range(lo.val.addr, hi.val.addr)>>]
             ELSE IF hi.some /\ hi.val.form = "Udata"
             THEN LET sum == add_u64(lo.val.addr, hi.val.udata, b)
                  IN  IF sum.some
                      THEN [ret |-> "Some", kind |-> "Synthetic",
                            items |-> <<Range(lo.val.addr, sum.val)>>]
                      ELSE [ret |-> "panic"]
             ELSE [ret |-> "None"]
        ELSE IF rr.val.form = "DebugRangesRef"
        THEN [ret |-> "Some", kind |-> "Real", items |-> ranges(rr.val.rr, base)]
        ELSE [ret |-> "panic"]

\* the whole sequence a WrapRangeIter yields until its first None
drain(ret) == IF ret.ret = "Some" THEN ret.items ELSE << >>

(***************************************************************************)
(* The range adapter on its own: one DIE, read_ranges, then next() until   *)
(* the iterator is exhausted and polled again.                             *)
(***************************************************************************)
NotCalled == [ret |-> "NotCalled"]

\* attribute sets of a DIE: any subset of ranges / low_pc / high_pc, each in
\* the forms the code distinguishes
WithAttr(name, opt) == IF opt.some THEN name :> opt.val ELSE << >>

RangeLists == { << >>, <<Range(1, 2)>>, <<Range(4, 6), Range(0, 1)>> }

RangesForms == {None, Some(Flag)} \cup {Some(DebugRangesRef(rr)) : rr \in RangeLists}
LowForms == {None, Some(Udata(1))} \cup {Some(Addr(a)) : a \in Addrs}
HighForms ==
    {None, Some(Flag)} \cup {Some(Addr(a)) : a \in Addrs}
        \cup {Some(Udata(x)) : x \in Addrs}

RangeEntries ==
    { [tag |-> "DW_TAG_lexical_block",
       attrs |-> WithAttr("DW_AT_ranges", r) @@ WithAttr("DW_AT_low_pc", l)
                    @@ WithAttr("DW_AT_high_pc", h)] :
        r \in RangesForms, l \in LowForms, h \in HighForms }

RangesIdle ==
    /\ entry = [tag |-> "none", attrs |-> << >>]
    /\ base_addr = 0
    /\ ranges_ret = NotCalled
    /\ range_out = << >>

LightIdle ==
    /\ file_units = << >>
    /\ debug_line = << >>
    /\ ctx_status = "unbuilt"
    /\ units = << >>
    /\ unit_ranges = << >>
    /\ loc_ret = [called |-> FALSE]

FramesIdle ==
    /\ full_status = "light"
    /\ funcs = << >>
    /\ it = [funcs |-> << >>, next |-> None]
    /\ query = [called |-> FALSE]
    /\ frames = << >>

VarsIdle ==
    /\ var_it = [called |-> FALSE]
    /\ var_out = << >>

StrIdle == str_call = [status |-> "idle"]

InitRanges ==
    /\ build \in Builds
    /\ entry \in RangeEntries
    /\ base_addr \in {0, 1}
    /\ ranges_ret = NotCalled
    /\ range_out = << >>
    /\ LightIdle
    /\ FramesIdle
    /\ VarsIdle
    /\ StrIdle

ReadRanges ==
    /\ ranges_ret = NotCalled
    /\ ranges_ret' = read_ranges(entry, base_addr, build)
    /\ UNCHANGED <<build, entry, base_addr, range_out>>
    /\ UNCHANGED lightVars
    /\ UNCHANGED frameVars
    /\ UNCHANGED varVars
    /\ UNCHANGED strVars

\* WrapRangeIter::next: Real hands on the list's next range, Synthetic takes
\* its one range and leaves None behind
RangeNext ==
    /\ ranges_ret.ret = "Some"
    /\ Len(SelectSeq(range_out, LAMBDA o : ~o.some)) < MaxPolls
    /\ IF ranges_ret.items # << >>
       THEN /\ range_out' = Append(range_out, Some(Head(ranges_ret.items)))
            /\ ranges_ret' = [ranges_ret EXCEPT !.items = Tail(@)]
       ELSE /\ range_out' = Append(range_out, None)
            /\ UNCHANGED ranges_ret
    /\ UNCHANGED <<build, entry, base_addr>>
    /\ UNCHANGED lightVars
    /\ UNCHANGED frameVars
    /\ UNCHANGED varVars
    /\ UNCHANGED strVars

NextRanges == ReadRanges \/ RangeNext

SpecRanges == InitRanges /\ [][NextRanges]_vars

(***************************************************************************)
(* C8: the ranges of a DIE with low_pc and high_pc.                        *)
(***************************************************************************)
\* every range the iterator has handed out or still holds, in order
AllRanges ==
    [i \in 1 .. Len(SelectSeq(range_out, LAMBDA o : o.some)) |->
        SelectSeq(range_out, LAMBDA o : o.some)[i].val] \o drain(ranges_ret)

\* once next() has returned None it returns nothing else
NoneIsFinal ==
    \A i, j \in 1 .. Len(range_out) : (i < j /\ ~range_out[i].some) => ~range_out[j].some

LowAddr == attr_value(entry, "DW_AT_low_pc").some
             /\ attr_value(entry, "DW_AT_low_pc").val.form = "Addr"
HighIs(form) == attr_value(entry, "DW_AT_high_pc").some
             /\ attr_value(entry, "DW_AT_high_pc").val.form = form
NoRangesAttr == ~attr_value(entry, "DW_AT_ranges").some
LowVal == entry.attrs["DW_AT_low_pc"].addr

\* C8 as stated: without DW_AT_ranges and with low_pc = address L, read_ranges
\* yields exactly the one range [L, H) for high_pc = address H and exactly the
\* one range [L, L + X) for high_pc = constant X, the end being the arithmetic
\* sum for every L and X of the word; without a usable low_pc/high_pc pair it
\* reports no range information.
C8_EndIsArithmeticSum ==
    (ranges_ret # NotCalled /\ NoRangesAttr) =>
        IF LowAddr /\ HighIs("Addr")
        THEN /\ ranges_ret.ret = "Some"
             /\ AllRanges = <<Range(LowVal, entry.attrs["DW_AT_high_pc"].addr)>>
             /\ NoneIsFinal
        ELSE IF LowAddr /\ HighIs("Udata")
        THEN /\ ranges_ret.ret = "Some"
             /\ AllRanges = <<Range(LowVal, LowVal + entry.attrs["DW_AT_high_pc"].udata)>>
             /\ NoneIsFinal
        ELSE ranges_ret.ret = "None"

\* C8 amended: as above while L + X fits the address word; when L + X exceeds
\* it, a build that checks overflow aborts in read_ranges and a build that does
\* not yields the one range [L, (L + X) mod 2^w).
C8_EndIsSumWithinWord ==
    (ranges_ret # NotCalled /\ NoRangesAttr) =>
        IF LowAddr /\ HighIs("Addr")
        THEN /\ ranges_ret.ret = "Some"
             /\ AllRanges = <<Range(LowVal, entry.attrs["DW_AT_high_pc"].addr)>>
             /\ NoneIsFinal
        ELSE IF LowAddr /\ HighIs("Udata")
        THEN LET X == entry.attrs["DW_AT_high_pc"].udata
             IN  IF LowVal + X < Modulus
                 THEN /\ ranges_ret.ret = "Some"
                      /\ AllRanges = <<Range(LowVal, LowVal + X)>>
                      /\ NoneIsFinal
                 ELSE IF build.overflow_checks
                 THEN ranges_ret.ret = "panic"
                 ELSE /\ ranges_ret.ret = "Some"
                      /\ AllRanges = <<Range(LowVal, LowVal + X - Modulus)>>
                      /\ NoneIsFinal
        ELSE ranges_ret.ret = "None"

\* the offset form has been read and its one range handed out, then None
C8_Witness ==
    /\ NoRangesAttr /\ LowAddr /\ HighIs("Udata")
    /\ entry.attrs["DW_AT_high_pc"].udata > 0
    /\ Len(range_out) = 2
    /\ range_out[1] = Some(Range(LowVal, LowVal + entry.attrs["DW_AT_high_pc"].udata))
    /\ range_out[2] = None

(***************************************************************************)
(* Line-number programs, Location and render_file.                         *)
(***************************************************************************)
DebugLineRef(dlr) == [form |-> "DebugLineRef", dlr |-> dlr]
Language(l) == [form |-> "Language", lang |-> l]
String(str) == [form |-> "String", str |-> str]

\* a row of a line-number program; file is an index into the header's file
\* table, line 0 is "no line" and column 0 the left edge
Row(a, f, l, c) == [address |-> a, file |-> f, line |-> l, column |-> c]

\* a LineNumberSequence as ilnp.sequences() cuts it: rows up to and with the
\* end_sequence row; start is the address of the first row, end that of the
\* end_sequence row
LineNumberSequence(rows) ==
    [start |-> rows[1].address, end |-> rows[Len(rows)].address, rows |-> rows]

\* PathBuf::push: an absolute path replaces, a relative one is appended
push(path, p) == IF p # << >> /\ p[1] = "/" THEN p ELSE path \o p

\* render_file(header, ffile, dcd)
render_file(ffile, dcd) ==
    LET p0 == IF dcd.some THEN dcd.val ELSE << >>
        p1 == IF ffile.directory.some THEN push(p0, ffile.directory.val) ELSE p0
    IN  push(p1, ffile.path_name)

\* header.file(index)
header_file(lnp, fi) ==
    IF fi \in DOMAIN lnp.file_names THEN Some(lnp.file_names[fi]) ELSE None

\* row.line()
row_line(row) == IF row.line = 0 THEN None ELSE Some(row.line)

\* row.column(), LeftEdge => None
row_column(row) == IF row.column = 0 THEN None ELSE Some(row.column)

Location(f, l, c) == [file |-> f, line |-> l, column |-> c]

\* the file names of every line program of the model
FileNames ==
    <<[directory |-> None, path_name |-> <<"a.c">>],
      [directory |-> Some(<<"inc">>), path_name |-> <<"b.h">>],
      [directory |-> Some(<<"/", "usr">>), path_name |-> <<"c.h">>]>>

\* .debug_line: the line programs a DW_AT_stmt_list can point at, with their
\* sequences in the order of the section
DebugLine ==
    <<[file_names |-> FileNames,
       sequences |-> <<LineNumberSequence(<<Row(2, 1, 21, 0), Row(3, 2, 22, 5), Row(4, 1, 0, 0)>>),
                       LineNumberSequence(<<Row(0, 1, 11, 1), Row(1, 1, 0, 0)>>)>>],
      [file_names |-> FileNames,
       sequences |-> <<LineNumberSequence(<<Row(4, 3, 0, 2), Row(4, 4, 42, 0), Row(5, 2, 43, 7),
                                            Row(6, 2, 0, 0)>>)>>]>>

(***************************************************************************)
(* slice::sort_by_key (stable) and slice::binary_search_by.                *)
(***************************************************************************)
RECURSIVE insert_by_key(_, _, _)
\* index x put behind the last index of the sorted perm whose key is <= its own
insert_by_key(perm, x, keys) ==
    IF perm = << >> THEN <<x>>
    ELSE IF keys[perm[Len(perm)]] <= keys[x] THEN Append(perm, x)
    ELSE Append(insert_by_key(SubSeq(perm, 1, Len(perm) - 1), x, keys), perm[Len(perm)])

RECURSIVE sort_from(_, _, _)
sort_from(i, perm, keys) ==
    IF i > Len(keys) THEN perm
    ELSE sort_from(i + 1, insert_by_key(perm, i, keys), keys)

\* s.sort_by_key(|x| key(x)), keys[i] being the key of s[i]: stable
sort_by_key(s, keys) ==
    LET perm == sort_from(1, << >>, keys)
    IN  [i \in 1 .. Len(s) |-> s[perm[i]]]

RECURSIVE search_from(_, _, _)
\* the loop of binary_search_by: base moves to mid unless the element at mid
\* compares Greater; the loop ends with one candidate left
search_from(base, size, cmps) ==
    IF size <= 1 THEN base
    ELSE LET half == size \div 2
             mid == base + half
         IN  search_from(IF cmps[mid + 1] = "Greater" THEN base ELSE mid,
                         size - half, cmps)

\* s.binary_search_by(f), cmps[i] being f(s[i]): Ok(index), zero-based, or Err
binary_search_by(cmps) ==
    IF cmps = << >> THEN None
    ELSE LET base == search_from(0, Len(cmps), cmps)
         IN  IF cmps[base + 1] = "Equal" THEN Some(base) ELSE None

\* the comparator of both searches: where the element lies relative to probe
cmp_probe(probe, lo, hi) ==
    IF probe < lo THEN "Greater"
    ELSE IF probe >= hi THEN "Less"
    ELSE "Equal"

(***************************************************************************)
(* Context::new.                                                           *)
(***************************************************************************)
\* every (range, unit_id) pushed for the ranges the iterator yields, empty
\* ranges left out
push_ranges(ur, items, unit_id) ==
    ur \o [i \in 1 .. Len(SelectSeq(items, LAMBDA r : r.begin # r.end)) |->
            <<SelectSeq(items, LAMBDA r : r.begin # r.end)[i], unit_id>>]

\* let (lnp, mut sequences) = ilnp.sequences()?; sequences.sort_by_key(|x| x.start)
sorted_sequences(lnp) ==
    sort_by_key(lnp.sequences, [i \in 1 .. Len(lnp.sequences) |-> lnp.sequences[i].start])

\* unit_ranges left in the order of the pushes
sort_unit_ranges_skipped(ur) == ur

\* unit_ranges.sort_by_key(|x| x.0.begin)
sort_unit_ranges(ur) == sort_by_key(ur, [i \in 1 .. Len(ur) |-> ur[i][1].begin])

\* unit_ranges.windows(2).all(|w| w[0].0.end <= w[1].0.begin)
windows_disjoint(ur) ==
    \A i \in 1 .. (Len(ur) - 1) : ur[i][1].end <= ur[i + 1][1].begin

RECURSIVE new_loop(_, _, _, _, _, _)
\* the `while let Some(dw_unit) = units.next()?` loop from unit i on
new_loop(cus, dl, i, res_units, ur, b) ==
    IF i > Len(cus)
    THEN [status |-> "ok", units |-> res_units, unit_ranges |-> ur]
    ELSE
    LET dw_unit == cus[i]
        unit_id == Len(res_units)
        skip == new_loop(cus, dl, i + 1, res_units, ur, b)
        panic == [status |-> "panic", units |-> res_units, unit_ranges |-> ur]
    IN  IF dw_unit.entries = << >> \/ dw_unit.entries[1].tag # "DW_TAG_compile_unit"
        THEN skip
        ELSE
        LET unit == dw_unit.entries[1]
            stmt == attr_value(unit, "DW_AT_stmt_list")
            dcd == attr_value(unit, "DW_AT_comp_dir")
            low == attr_value(unit, "DW_AT_low_pc")
            lang == attr_value(unit, "DW_AT_language")
        IN  IF ~(stmt.some /\ stmt.val.form = "DebugLineRef") THEN panic
            ELSE IF ~(low.some /\ low.val.form = "Addr") THEN skip
            ELSE IF ~(lang.some /\ lang.val.form = "Language") THEN skip
            ELSE
            LET rr == read_ranges(unit, low.val.addr, b)
                lnp == dl[stmt.val.dlr + 1]
                inner == [lnp |-> [file_names |-> lnp.file_names],
                          sequences |-> sorted_sequences(lnp),
                          comp_dir |-> IF dcd.some /\ dcd.val.form = "String"
                                       THEN Some(dcd.val.str) ELSE None,
                          lang |-> lang.val.lang,
                          base_addr |-> low.val.addr]
            IN  IF rr.ret = "panic" THEN panic
                ELSE new_loop(cus, dl, i + 1,
                              Append(res_units, [dw_unit |-> dw_unit, inner |-> inner]),
                              push_ranges(ur, drain(rr), unit_id), b)

\* Context::new(file): the loop, the sort and the debug assertion
new(cus, dl, b) ==
    LET looped == new_loop(cus, dl, 1, << >>, << >>, b)
        sorted == sort_unit_ranges(looped.unit_ranges)
    IN  IF looped.status # "ok" THEN looped
        ELSE IF b.debug_assertions /\ ~windows_disjoint(sorted)
        THEN [status |-> "panic", units |-> looped.units, unit_ranges |-> sorted]
        ELSE [status |-> "ok", units |-> looped.units, unit_ranges |-> sorted]

(***************************************************************************)
(* Context::find_location and find_location_inner.                         *)
(***************************************************************************)
\* the walk stopping at the first row at or after the probe
row_at_or_after_probe(row, probe) == row.address >= probe

\* the `if row.address() > probe { break; }` of the row walk
row_after_probe(row, probe) == row.address > probe

RECURSIVE walk_rows(_, _, _, _, _)
\* while let Some((_, row)) = sm.next_row()? { .. }: cur is (file, line, column)
walk_rows(lnp, rows, i, probe, cur) ==
    IF i > Len(rows) THEN cur
    ELSE IF row_after_probe(rows[i], probe) THEN cur
    ELSE walk_rows(lnp, rows, i + 1, probe,
                   [file |-> header_file(lnp, rows[i].file),
                    line |-> row_line(rows[i]),
                    column |-> row_column(rows[i])])

\* find_location_inner answering an empty Location when no sequence of the
\* unit contains the probe
find_location_inner_always(probe, uunit) ==
    LET idx == binary_search_by(
                   [i \in 1 .. Len(uunit.sequences) |->
                       cmp_probe(probe, uunit.sequences[i].start, uunit.sequences[i].end)])
    IN  IF ~idx.some THEN Some(Location(None, None, None))
        ELSE LET ln == uunit.sequences[idx.val + 1]
                 cur == walk_rows(uunit.lnp, ln.rows, 1, probe,
                                  [file |-> None, line |-> None, column |-> None])
                 file == IF cur.file.some
                         THEN Some(render_file(cur.file.val, uunit.comp_dir))
                         ELSE None
             IN  Some(Location(file, cur.line, cur.column))

find_location_inner(probe, uunit) ==
    LET idx == binary_search_by(
                   [i \in 1 .. Len(uunit.sequences) |->
                       cmp_probe(probe, uunit.sequences[i].start, uunit.sequences[i].end)])
    IN  IF ~idx.some THEN None
        ELSE LET ln == uunit.sequences[idx.val + 1]
                 cur == walk_rows(uunit.lnp, ln.rows, 1, probe,
                                  [file |-> None, line |-> None, column |-> None])
                 file == IF cur.file.some
                         THEN Some(render_file(cur.file.val, uunit.comp_dir))
                         ELSE None
             IN  Some(Location(file, cur.line, cur.column))

find_location(ctx_units, ctx_unit_ranges, probe) ==
    LET idx == binary_search_by(
                   [i \in 1 .. Len(ctx_unit_ranges) |->
                       cmp_probe(probe, ctx_unit_ranges[i][1].begin, ctx_unit_ranges[i][1].end)])
    IN  IF ~idx.some THEN None
        ELSE find_location_inner(probe, ctx_units[ctx_unit_ranges[idx.val + 1][2] + 1].inner)

(***************************************************************************)
(* The Light Context: .debug_info is read by Context::new, then the        *)
(* context answers find_location.                                          *)
(***************************************************************************)
\* how many compilation units .debug_info holds at most
MaxUnits == 2

Without(f, name) == [n \in (DOMAIN f) \ {name} |-> f[n]]

\* the root DIEs of the model: stmt_list, low_pc, language, comp_dir and the
\* ranges of the unit in each of the forms read_ranges takes
CommonAttrs(dlr) ==
    ("DW_AT_stmt_list" :> DebugLineRef(dlr))
        @@ ("DW_AT_language" :> Language("DW_LANG_C_plus_plus"))
        @@ ("DW_AT_comp_dir" :> String(<<"/", "src">>))

RootAttrs ==
    LET common(dlr) == CommonAttrs(dlr)
    IN  { common(0) @@ ("DW_AT_low_pc" :> Addr(0)) @@ ("DW_AT_high_pc" :> Addr(2)),
          common(0) @@ ("DW_AT_low_pc" :> Addr(2)) @@ ("DW_AT_high_pc" :> Udata(2)),
          common(0) @@ ("DW_AT_low_pc" :> Addr(1)) @@ ("DW_AT_high_pc" :> Addr(3)),
          common(1) @@ ("DW_AT_low_pc" :> Addr(4)) @@ ("DW_AT_high_pc" :> Addr(4)),
          common(1) @@ ("DW_AT_low_pc" :> Addr(4))
                    @@ ("DW_AT_ranges" :> DebugRangesRef(<<Range(1, 2), Range(0, 1)>>)),
          common(1) @@ ("DW_AT_low_pc" :> Addr(6)) @@ ("DW_AT_high_pc" :> Udata(3)),
          common(0) @@ ("DW_AT_low_pc" :> Addr(0)) }

\* the attributes of the roots that are not indexed: ranges they would add
OtherRootAttrs ==
    { CommonAttrs(0) @@ ("DW_AT_low_pc" :> Addr(0)) @@ ("DW_AT_high_pc" :> Addr(2)),
      CommonAttrs(1) @@ ("DW_AT_low_pc" :> Addr(4))
                     @@ ("DW_AT_ranges" :> DebugRangesRef(<<Range(1, 2), Range(0, 1)>>)) }

Required == {"DW_AT_stmt_list", "DW_AT_low_pc", "DW_AT_language"}

DIE(tag, has_children, attrs) == [tag |-> tag, has_children |-> has_children, attrs |-> attrs]

\* a unit of .debug_info: complete, with another root tag, or lacking one of
\* the required attributes
FileUnits ==
    { [entries |-> <<DIE("DW_TAG_compile_unit", FALSE, a)>>] : a \in RootAttrs }
    \cup { [entries |-> <<DIE("DW_TAG_type_unit", FALSE, a)>>] : a \in OtherRootAttrs }
    \cup { [entries |-> <<DIE("DW_TAG_compile_unit", FALSE, Without(a, r))>>] :
             a \in OtherRootAttrs, r \in Required }

SeqsUpTo(S, n) == UNION { [1 .. k -> S] : k \in 0 .. n }

InitLight ==
    /\ build \in Builds
    /\ file_units \in SeqsUpTo(FileUnits, MaxUnits)
    /\ debug_line = DebugLine
    /\ ctx_status = "unbuilt"
    /\ units = << >>
    /\ unit_ranges = << >>
    /\ loc_ret = [called |-> FALSE]
    /\ RangesIdle
    /\ FramesIdle
    /\ VarsIdle
    /\ StrIdle

ContextNew ==
    /\ ctx_status = "unbuilt"
    /\ LET ctx == new(file_units, debug_line, build)
       IN  /\ ctx_status' = ctx.status
           /\ units' = ctx.units
           /\ unit_ranges' = ctx.unit_ranges
    /\ UNCHANGED <<build, file_units, debug_line, loc_ret>>
    /\ UNCHANGED rangeVars
    /\ UNCHANGED frameVars
    /\ UNCHANGED varVars
    /\ UNCHANGED strVars

FindLocation ==
    /\ ctx_status = "ok"
    /\ \E probe \in Addrs :
         loc_ret' = [called |-> TRUE, probe |-> probe,
                     ret |-> find_location(units, unit_ranges, probe)]
    /\ UNCHANGED <<build, file_units, debug_line, ctx_status, units, unit_ranges>>
    /\ UNCHANGED rangeVars
    /\ UNCHANGED frameVars
    /\ UNCHANGED varVars
    /\ UNCHANGED strVars

NextLight == ContextNew \/ FindLocation

SpecLight == InitLight /\ [][NextLight]_vars

(***************************************************************************)
(* C4: unit_ranges after construction.                                     *)
(***************************************************************************)
SortedByBegin ==
    \A i, j \in 1 .. Len(unit_ranges) :
        i < j => unit_ranges[i][1].begin <= unit_ranges[j][1].begin

AdjacentDisjoint ==
    \A i \in 1 .. (Len(unit_ranges) - 1) :
        unit_ranges[i][1].end <= unit_ranges[i + 1][1].begin

\* C4 as stated: after every successful construction, whatever the units and
\* their ranges, unit_ranges is sorted ascending by begin and each adjacent
\* pair satisfies w[i].end <= w[i+1].begin.
C4_SortedAndDisjoint ==
    ctx_status = "ok" => (SortedByBegin /\ AdjacentDisjoint)

\* C4 amended: after every successful construction unit_ranges is sorted
\* ascending by begin; adjacent pairs are disjoint when the build checks debug
\* assertions (overlapping input then aborts the construction), and not for
\* every input otherwise.
C4_SortedAndDisjointIfAsserted ==
    ctx_status = "ok" => (SortedByBegin /\ (build.debug_assertions => AdjacentDisjoint))

\* a construction that had to reorder: a later unit's range sorted before an
\* earlier unit's
C4_Witness ==
    /\ ctx_status = "ok"
    /\ \E i \in 1 .. (Len(unit_ranges) - 1) : unit_ranges[i][2] > unit_ranges[i + 1][2]

(***************************************************************************)
(* C6: units lacking a required attribute.                                 *)
(***************************************************************************)
LacksRequired(cu) ==
    /\ cu.entries # << >>
    /\ cu.entries[1].tag = "DW_TAG_compile_unit"
    /\ \E r \in Required : ~attr_value(cu.entries[1], r).some

\* C6: a unit whose root lacks stmt_list, low_pc or language is skipped
\* silently: the construction ends as it ends on the input without these
\* units (no abort, no error on their account), with the same units, hence
\* the same unit indexes, and the same unit_ranges.
C6_IncompleteUnitsSkipped ==
    ctx_status # "unbuilt" =>
        LET rest == new(SelectSeq(file_units, LAMBDA cu : ~LacksRequired(cu)), debug_line, build)
        IN  /\ ctx_status = rest.status
            /\ units = rest.units
            /\ unit_ranges = rest.unit_ranges

\* what the code does hold to: units lacking low_pc or language, their
\* stmt_list present, are skipped silently
C6_SkippedWhenStmtListPresent ==
    (/\ ctx_status # "unbuilt"
     /\ \A i \in 1 .. Len(file_units) :
            LacksRequired(file_units[i]) =>
                attr_value(file_units[i].entries[1], "DW_AT_stmt_list").some) =>
        LET rest == new(SelectSeq(file_units, LAMBDA cu : ~LacksRequired(cu)), debug_line, build)
        IN  /\ ctx_status = rest.status
            /\ units = rest.units
            /\ unit_ranges = rest.unit_ranges

(***************************************************************************)
(* C3: when find_location answers None.                                    *)
(***************************************************************************)
InUnitRange(i, probe) ==
    unit_ranges[i][1].begin <= probe /\ probe < unit_ranges[i][1].end

InSomeSequence(unit, probe) ==
    \E k \in 1 .. Len(unit.inner.sequences) :
        unit.inner.sequences[k].start <= probe /\ probe < unit.inner.sequences[k].end

MaxRows == 2

NonDecreasing(a) == \A i \in 1 .. (Len(a) - 1) : a[i] <= a[i + 1]

RECURSIVE NonDecreasingSeqs(_)
\* the sequences of n addresses, none below the one before it
NonDecreasingSeqs(n) ==
    IF n = 0 THEN { << >> }
    ELSE UNION { { Append(a, x) : x \in { y \in Addrs : a = << >> \/ a[Len(a)] <= y } } :
                 a \in NonDecreasingSeqs(n - 1) }

\* the row addresses of a sequence, the end_sequence row's last
RowAddresses == UNION { NonDecreasingSeqs(n) : n \in 2 .. (MaxRows + 1) }

\* rows at these addresses; row i has line i, so a Location names its row
RowsAt(a) == [i \in 1 .. Len(a) |-> Row(a[i], 1 + (i % 4), i, i % 2)]

InitLines ==
    /\ build \in Builds
    /\ file_units =
         <<[entries |-> <<DIE("DW_TAG_compile_unit", FALSE,
                              ("DW_AT_stmt_list" :> DebugLineRef(0))
                              @@ ("DW_AT_language" :> Language("DW_LANG_Rust"))
                              @@ ("DW_AT_low_pc" :> Addr(0))
                              @@ ("DW_AT_high_pc" :> Addr(Modulus - 1)))>>]>>
    /\ \E a \in RowAddresses :
         debug_line = <<[file_names |-> FileNames,
                         sequences |-> <<LineNumberSequence(RowsAt(a))>>]>>
    /\ ctx_status = "unbuilt"
    /\ units = << >>
    /\ unit_ranges = << >>
    /\ loc_ret = [called |-> FALSE]
    /\ RangesIdle
    /\ FramesIdle
    /\ VarsIdle
    /\ StrIdle

SpecLines == InitLines /\ [][NextLight]_vars

(***************************************************************************)
(* C7: the row find_location answers with.                                 *)
(***************************************************************************)
\* the Location find_location_inner makes of a row
LocationOfRow(unit, row) ==
    Location(IF row.file \in DOMAIN unit.inner.lnp.file_names
             THEN Some(render_file(unit.inner.lnp.file_names[row.file], unit.inner.comp_dir))
             ELSE None,
             IF row.line = 0 THEN None ELSE Some(row.line),
             IF row.column = 0 THEN None ELSE Some(row.column))

\* C7: when find_location(pc) finds a line sequence containing pc, the row
\* whose file, line and column it returns is the last row of the sequence with
\* address <= pc, and the row after it has an address > pc.
C7_LastRowAtOrBeforeProbe ==
    (loc_ret.called /\ loc_ret.ret.some /\ AdjacentDisjoint) =>
        \A i \in 1 .. Len(unit_ranges) :
          InUnitRange(i, loc_ret.probe) =>
            LET unit == units[unit_ranges[i][2] + 1]
                pc == loc_ret.probe
            IN  \A s \in 1 .. Len(unit.inner.sequences) :
                  LET ln == unit.inner.sequences[s]
                  IN  (ln.start <= pc /\ pc < ln.end) =>
                        \E k \in 1 .. Len(ln.rows) :
                          /\ loc_ret.ret.val = LocationOfRow(unit, ln.rows[k])
                          /\ ln.rows[k].address <= pc
                          /\ k < Len(ln.rows) => ln.rows[k + 1].address > pc
                          /\ \A j \in 1 .. Len(ln.rows) : ln.rows[j].address <= pc => j <= k

\* the walk passed over two rows at one address before the probe, settled on
\* the second and stopped at the row after it
C7_Witness ==
    /\ loc_ret.called /\ loc_ret.ret.some /\ Len(units) = 1
    /\ LET rows == units[1].inner.sequences[1].rows
       IN  /\ Len(rows) = 3
           /\ loc_ret.ret.val.line = Some(2)
           /\ rows[1].address = rows[2].address
           /\ rows[2].address < loc_ret.probe
           /\ rows[3].address > loc_ret.probe

(***************************************************************************)
(* DIE cursors (gimli::EntriesCursor) over the entries of a unit.  The     *)
(* entries of a unit are its DIEs in section order, a null entry closing   *)
(* each list of children; the offset of an entry is its index.             *)
(***************************************************************************)
Null == [tag |-> "null", has_children |-> FALSE, attrs |-> << >>]

UnitRef(offset) == [form |-> "UnitRef", offset |-> offset]
FileIndex(fi) == [form |-> "FileIndex", fi |-> fi]
DebugLocRef(lr) == [form |-> "DebugLocRef", lr |-> lr]
Exprloc(data) == [form |-> "Exprloc", data |-> data]

\* dw_unit.entries(&abbrevs) is entries_at_offset at the root
entries_at_offset(offset) == [input |-> offset, cached_current |-> 0, delta_depth |-> 0]

\* cursor.current(): the index of the entry, 0 for None
current(c) == c.cached_current

\* EntriesCursor::next_entry: [cursor, some]
next_entry(c, entries) ==
    IF c.input > Len(entries)
    THEN [cursor |-> [c EXCEPT !.cached_current = 0, !.delta_depth = 0], some |-> FALSE]
    ELSE IF entries[c.input].tag = "null"
    THEN [cursor |-> [input |-> c.input + 1, cached_current |-> 0, delta_depth |-> -1],
          some |-> TRUE]
    ELSE [cursor |-> [input |-> c.input + 1, cached_current |-> c.input,
                      delta_depth |-> IF entries[c.input].has_children THEN 1 ELSE 0],
          some |-> TRUE]

RECURSIVE next_dfs_loop(_, _, _)
next_dfs_loop(c, delta_depth, entries) ==
    LET n == next_entry(c, entries)
    IN  IF ~n.some THEN [cursor |-> n.cursor, some |-> FALSE, d |-> 0]
        ELSE IF n.cursor.cached_current # 0
        THEN [cursor |-> n.cursor, some |-> TRUE, d |-> delta_depth]
        ELSE next_dfs_loop(n.cursor, delta_depth + n.cursor.delta_depth, entries)

\* EntriesCursor::next_dfs: [cursor, some, d], the entry being current(cursor)
next_dfs(c, entries) == next_dfs_loop(c, c.delta_depth, entries)

RECURSIVE next_sibling_loop(_, _, _)
next_sibling_loop(c, depth, entries) ==
    LET down == IF current(c) # 0 /\ entries[current(c)].has_children
                THEN depth + 1 ELSE depth
        n == next_entry(c, entries)
    IN  IF ~n.some THEN [cursor |-> n.cursor, some |-> FALSE]
        ELSE IF down = 0 THEN [cursor |-> n.cursor, some |-> current(n.cursor) # 0]
        ELSE next_sibling_loop(n.cursor,
                               IF current(n.cursor) = 0 THEN down - 1 ELSE down,
                               entries)

\* EntriesCursor::next_sibling: [cursor, some]
next_sibling(c, entries) ==
    IF current(c) = 0 THEN [cursor |-> c, some |-> FALSE]
    ELSE next_sibling_loop(c, 0, entries)

(***************************************************************************)
(* str_attr.                                                               *)
(***************************************************************************)
\* x.string_value(&sections.debug_str)
string_value(x) == IF x.form = "String" THEN Some(x.str) ELSE None

\* one level of str_attr with DW_AT_abstract_origin never followed
str_attr_level_no_origin(e, entries, name) ==
    LET x == attr_value(entries[e], name)
    IN  IF x.some THEN [kind |-> "return", ret |-> string_value(x.val)]
        ELSE [kind |-> "return", ret |-> None]

\* one level of str_attr(entry, dw_unit, abbrevs, sections, name), the entry
\* by its offset: it returns, calls itself on another entry, or panics
str_attr_level(e, entries, name) ==
    LET x == attr_value(entries[e], name)
        origin == attr_value(entries[e], "DW_AT_abstract_origin")
    IN  IF x.some THEN [kind |-> "return", ret |-> string_value(x.val)]
        ELSE IF ~origin.some THEN [kind |-> "return", ret |-> None]
        ELSE IF origin.val.form = "UnitRef"
        THEN LET t == next_dfs(entries_at_offset(origin.val.offset), entries)
             IN  IF t.some THEN [kind |-> "call", entry |-> current(t.cursor)]
                 ELSE [kind |-> "return", ret |-> None]
        ELSE [kind |-> "panic"]

RECURSIVE str_attr(_, _, _)
\* str_attr to its return, every level of the recursion run; the callers
\* read .some of the Option returned
str_attr(e, entries, name) ==
    LET l == str_attr_level(e, entries, name)
    IN  IF l.kind = "return" THEN l.ret
        ELSE IF l.kind = "call" THEN str_attr(l.entry, entries, name)
        ELSE [some |-> FALSE, panic |-> TRUE]

(***************************************************************************)
(* Context::parse_functions.                                               *)
(***************************************************************************)
Func(unit_id, entry_off, depth) ==
    [unit_id |-> unit_id, entry_off |-> entry_off, depth |-> depth]

IsFunctionTag(tag) == tag \in {"DW_TAG_subprogram", "DW_TAG_inlined_subroutine"}

RECURSIVE parse_unit(_, _, _, _, _, _)
\* the `while let Some((d, entry)) = cursor.next_dfs()?` loop of one unit
parse_unit(unit, unit_id, c, depth, results, b) ==
    LET entries == unit.dw_unit.entries
        n == next_dfs(c, entries)
    IN  IF ~n.some THEN [status |-> "ok", results |-> results]
        ELSE
        LET e == current(n.cursor)
            depth2 == depth + n.d
        IN  IF IsFunctionTag(entries[e].tag)
            THEN LET rr == read_ranges(entries[e], unit.inner.base_addr, b)
                 IN  IF rr.ret = "panic" THEN [status |-> "panic", results |-> results]
                     ELSE parse_unit(unit, unit_id, n.cursor, depth2,
                                     results \o [i \in 1 .. Len(drain(rr)) |->
                                         [range |-> drain(rr)[i],
                                          value |-> Func(unit_id, e, depth2)]], b)
            ELSE parse_unit(unit, unit_id, n.cursor, depth2, results, b)

RECURSIVE parse_units(_, _, _, _)
parse_units(ctx_units, i, results, b) ==
    IF i > Len(ctx_units) THEN [status |-> "ok", results |-> results]
    ELSE LET r == parse_unit(ctx_units[i], i - 1, entries_at_offset(1), 0, results, b)
         IN  IF r.status # "ok" THEN r ELSE parse_units(ctx_units, i + 1, r.results, b)

\* Context::parse_functions: the elements handed to the interval tree
parse_functions(ctx_units, b) == parse_units(ctx_units, 1, << >>, b)

(***************************************************************************)
(* FullContext::query and IterFrames::next.                                *)
(***************************************************************************)
\* the key of res.sort_by_key with the sign of the depth kept
depth_key_ascending(f) == f.depth

\* res.sort_by_key(|x| -x.depth)
depth_key(f) == 0 - f.depth

\* the indexes of the elements funcs.query_point(probe) finds
query_point(tree, probe) ==
    { i \in 1 .. Len(tree) : tree[i].range.begin <= probe /\ probe < tree[i].range.end }

RECURSIVE Orders(_)
\* the orders in which an iterator can hand out the elements of a set
Orders(S) ==
    IF S = {} THEN { << >> }
    ELSE UNION { { <<x>> \o o : o \in Orders(S \ {x}) } : x \in S }

\* FullContext::query with the location always looked up in the first unit
query_frames_first_unit(ctx_units, ctx_unit_ranges, tree, order, probe) ==
    LET res0 == [i \in 1 .. Len(order) |-> tree[order[i]].value]
        res == sort_by_key(res0, [i \in 1 .. Len(res0) |-> depth_key(res0[i])])
        loc == IF res # << >>
               THEN find_location_inner(probe, ctx_units[1].inner)
               ELSE find_location(ctx_units, ctx_unit_ranges, probe)
    IN  [funcs |-> res, next |-> loc]

\* FullContext::query on the matches in the order the tree hands them out:
\* the IterFrames
query_frames(ctx_units, ctx_unit_ranges, tree, order, probe) ==
    LET res0 == [i \in 1 .. Len(order) |-> tree[order[i]].value]
        res == sort_by_key(res0, [i \in 1 .. Len(res0) |-> depth_key(res0[i])])
        loc == IF res # << >>
               THEN find_location_inner(probe, ctx_units[res[1].unit_id + 1].inner)
               ELSE find_location(ctx_units, ctx_unit_ranges, probe)
    IN  [funcs |-> res, next |-> loc]

\* x.udata_value()
udata_value(x) == IF x.form = "Udata" THEN Some(x.udata) ELSE None

\* entry.attr(name)?.and_then(|x| x.udata_value())
udata_attr(e, name) ==
    IF attr_value(e, name).some THEN udata_value(attr_value(e, name).val) ELSE None

\* the call site with the line in the place of the column
call_site_line_for_column(e, unit) ==
    Location(None, udata_attr(e, "DW_AT_call_line"), udata_attr(e, "DW_AT_call_line"))

\* the Location IterFrames::next makes of DW_AT_call_file, _line and _column
call_site(e, unit) ==
    LET cf == attr_value(e, "DW_AT_call_file")
        file == IF cf.some /\ cf.val.form = "FileIndex"
                THEN IF header_file(unit.inner.lnp, cf.val.fi).some
                     THEN Some(render_file(header_file(unit.inner.lnp, cf.val.fi).val,
                                           unit.inner.comp_dir))
                     ELSE None
                ELSE None
    IN  Location(file, udata_attr(e, "DW_AT_call_line"), udata_attr(e, "DW_AT_call_column"))

\* self.next read without being taken
carry_kept(next) == next

\* what self.next.take() leaves in self.next
carry_after_take(next) == None

\* IterFrames::next: [it, ret, func], func the match the frame was made of
iter_next(i, ctx_units) ==
    LET loc == i.next
        taken == [i EXCEPT !.next = carry_after_take(i.next)]
    IN  IF i.funcs = << >>
        THEN IF ~loc.some
             THEN [it |-> taken, ret |-> None, func |-> None]
             ELSE [it |-> taken, func |-> None,
                   ret |-> Some([function |-> None, location |-> Some(loc.val)])]
        ELSE
        LET func == Head(i.funcs)
            unit == ctx_units[func.unit_id + 1]
            entries == unit.dw_unit.entries
            cursor == next_dfs(entries_at_offset(func.entry_off), entries).cursor
            e == current(cursor)
            name == str_attr(e, entries, "DW_AT_linkage_name")
            carried == IF entries[e].tag = "DW_TAG_inlined_subroutine"
                       THEN Some(call_site(entries[e], unit))
                       ELSE taken.next
        IN  [it |-> [funcs |-> Tail(i.funcs), next |-> carried],
             func |-> Some(func),
             ret |-> Some([function |-> IF name.some
                                        THEN Some([name |-> name.val,
                                                   language |-> unit.inner.lang,
                                                   cursor |-> cursor,
                                                   unit |-> func.unit_id])
                                        ELSE None,
                           location |-> loc])]

(***************************************************************************)
(* The Full Context: one unit of subprograms and inlined subroutines is    *)
(* read, its functions are indexed, and queries are answered frame by      *)
(* frame.                                                                  *)
(***************************************************************************)
\* how many entries, null entries with them, the DIEs under the root take
MaxBody == 5

RECURSIVE Forests(_, _, _)
\* the lists of n entries that are well-formed lists of siblings: a leaf, or a
\* parent with its children and the null entry closing them, then the rest
Forests(n, leaves, parents) ==
    IF n = 0 THEN { << >> }
    ELSE { <<[kind |-> t, has_children |-> FALSE]>> \o r :
             t \in leaves, r \in Forests(n - 1, leaves, parents) }
         \cup UNION { { <<[kind |-> t, has_children |-> TRUE]>> \o c
                            \o <<[kind |-> "null", has_children |-> FALSE]>> \o r :
                          t \in parents, c \in Forests(k, leaves, parents),
                          r \in Forests(n - 2 - k, leaves, parents) } :
                      k \in 0 .. (n - 2) }

LowHigh(lo, hi) == ("DW_AT_low_pc" :> Addr(lo)) @@ ("DW_AT_high_pc" :> hi)

CallSite(off) ==
    ("DW_AT_call_file" :> FileIndex(1 + (off % 3)))
        @@ ("DW_AT_call_line" :> Udata(10 + off)) @@ ("DW_AT_call_column" :> Udata(off))

\* the DIE at offset off of each kind: subprograms over [0, 4), inlined
\* subroutines over [1, 3), named directly, through DW_AT_abstract_origin
\* (to the DIE at offset 3 or 4) or not at all
FrameDie(t, off) ==
    CASE t.kind = "null" -> Null
      [] t.kind = "SP_named" ->
           DIE("DW_TAG_subprogram", t.has_children,
               ("DW_AT_linkage_name" :> String(<<"fn", off>>)) @@ LowHigh(0, Addr(4)))
      [] t.kind = "SP_none" ->
           DIE("DW_TAG_subprogram", t.has_children,
               ("DW_AT_name" :> String(<<"fn", off>>)) @@ LowHigh(0, Addr(4)))
      [] t.kind = "IS_origin" ->
           DIE("DW_TAG_inlined_subroutine", t.has_children,
               ("DW_AT_abstract_origin" :> UnitRef(3)) @@ LowHigh(1, Udata(2))
                   @@ CallSite(off))
      [] t.kind = "IS_none" ->
           DIE("DW_TAG_inlined_subroutine", t.has_children,
               ("DW_AT_abstract_origin" :> UnitRef(4)) @@ LowHigh(1, Udata(2))
                   @@ ("DW_AT_call_line" :> Udata(10 + off)))
      [] t.kind = "IS_direct" ->
           DIE("DW_TAG_inlined_subroutine", t.has_children,
               ("DW_AT_linkage_name" :> String(<<"fn", off>>))
                   @@ ("DW_AT_ranges" :> DebugRangesRef(<<Range(1, 2), Range(2, 3)>>))
                   @@ ("DW_AT_call_file" :> FileIndex(9)) @@ ("DW_AT_call_line" :> Flag)
                   @@ ("DW_AT_call_column" :> Udata(off)))

\* the abstract instances at offsets 2, 3 and 4: a named subprogram, one named
\* through its origin, and one with no linkage name
AbstractInstances ==
    <<DIE("DW_TAG_subprogram", FALSE, "DW_AT_linkage_name" :> String(<<"fn", 2>>)),
      DIE("DW_TAG_subprogram", FALSE, "DW_AT_abstract_origin" :> UnitRef(2)),
      DIE("DW_TAG_subprogram", FALSE, "DW_AT_name" :> String(<<"fn", 4>>))>>

\* the entries of a unit: the root, the abstract instances, the body, the
\* null entry closing the root's children
UnitEntries(root_attrs, body) ==
    <<DIE("DW_TAG_compile_unit", TRUE, root_attrs)>> \o AbstractInstances
        \o [i \in 1 .. Len(body) |-> FrameDie(body[i], i + 4)] \o <<Null>>

FrameBodies ==
    UNION { Forests(n, {"IS_direct"},
                       {"SP_named", "SP_none", "IS_origin", "IS_none"}) : n \in 0 .. MaxBody }

\* the unit spans [0, 4) or, short of its functions, [0, 1)
FrameRoots ==
    { CommonAttrs(0) @@ LowHigh(0, Addr(4)), CommonAttrs(0) @@ LowHigh(0, Addr(1)) }

\* one sequence of rows over [0, 3)
FrameDebugLine ==
    <<[file_names |-> FileNames,
       sequences |-> <<LineNumberSequence(<<Row(0, 1, 5, 1), Row(1, 2, 6, 0),
                                            Row(2, 2, 7, 3), Row(3, 1, 0, 0)>>)>>]>>

FrameProbes == {0, 1, 3, 4}

InitFrames ==
    /\ build \in Builds
    /\ \E r \in FrameRoots, body \in FrameBodies :
         file_units = <<[entries |-> UnitEntries(r, body)]>>
    /\ debug_line = FrameDebugLine
    /\ ctx_status = "unbuilt"
    /\ units = << >>
    /\ unit_ranges = << >>
    /\ loc_ret = [called |-> FALSE]
    /\ RangesIdle
    /\ FramesIdle
    /\ VarsIdle
    /\ StrIdle

ParseFunctions ==
    /\ ctx_status = "ok"
    /\ full_status = "light"
    /\ LET r == parse_functions(units, build)
       IN  /\ full_status' = r.status
           /\ funcs' = r.results
    /\ UNCHANGED <<build, it, query, frames>>
    /\ UNCHANGED lightVars
    /\ UNCHANGED rangeVars
    /\ UNCHANGED varVars
    /\ UNCHANGED strVars

\* query takes &self and makes a new IterFrames each time, none depending on
\* another: a behaviour follows the one it makes first
Query ==
    /\ full_status = "ok"
    /\ ~query.called
    /\ \E probe \in FrameProbes : \E order \in Orders(query_point(funcs, probe)) :
         /\ it' = query_frames(units, unit_ranges, funcs, order, probe)
         /\ query' = [called |-> TRUE, probe |-> probe, res |-> it'.funcs,
                       loc |-> it'.next]
    /\ frames' = << >>
    /\ UNCHANGED <<build, full_status, funcs>>
    /\ UNCHANGED lightVars
    /\ UNCHANGED rangeVars
    /\ UNCHANGED varVars
    /\ UNCHANGED strVars

FrameNext ==
    /\ query.called
    /\ Len(SelectSeq(frames, LAMBDA f : ~f.ret.some)) < MaxPolls
    /\ LET n == iter_next(it, units)
       IN  /\ it' = n.it
           /\ frames' = Append(frames, [ret |-> n.ret, func |-> n.func])
    /\ UNCHANGED <<build, full_status, funcs, query>>
    /\ UNCHANGED lightVars
    /\ UNCHANGED rangeVars
    /\ UNCHANGED varVars
    /\ UNCHANGED strVars

NextFrames == ContextNew \/ ParseFunctions \/ Query \/ FrameNext

SpecFrames == InitFrames /\ [][NextFrames]_vars

(***************************************************************************)
(* Properties of the frames of a query.                                    *)
(***************************************************************************)
FrameEntries == file_units[1].entries

\* the DIE a match was made of
MatchDie(f) == FrameEntries[f.entry_off]

\* the positions of the frames yielded so far
YieldedFrames == { i \in 1 .. Len(frames) : frames[i].ret.some }

\* the frames made of a match, and those made of the carried location alone
MatchFrames == { i \in YieldedFrames : frames[i].func.some }

TrailingFrames == { i \in YieldedFrames : ~frames[i].func.some }

FunctionLess == { i \in YieldedFrames : ~frames[i].ret.val.function.some }

DepthNonIncreasing ==
    \A i, j \in MatchFrames : i < j => frames[i].func.val.depth >= frames[j].func.val.depth

\* C1 as stated: the frames come from the matches in non-increasing depth, at
\* most one yielded frame has function = None, and such a frame is the last
\* of the frames yielded.
C1_AtMostOneFunctionLessFrame ==
    /\ DepthNonIncreasing
    /\ Cardinality(FunctionLess) <= 1
    /\ \A i \in FunctionLess : \A j \in YieldedFrames : j <= i

\* C1: the frames come from the matches in non-increasing depth; at most one
\* frame comes from no match, it has function = None and a location and is
\* the last frame yielded; a frame that comes from a match has function =
\* None exactly when no DW_AT_linkage_name resolves for the matched DIE.
C1_FunctionLessOnlyTrailingOrUnnamed ==
    /\ DepthNonIncreasing
    /\ Cardinality(TrailingFrames) <= 1
    /\ \A i \in TrailingFrames :
         /\ ~frames[i].ret.val.function.some
         /\ frames[i].ret.val.location.some
         /\ \A j \in YieldedFrames : j <= i
    /\ \A i \in MatchFrames :
         frames[i].ret.val.function.some
             <=> str_attr(frames[i].func.val.entry_off, FrameEntries,
                          "DW_AT_linkage_name").some

\* a frame of an unnamed match between two frames of named matches, the
\* depths falling from each to the next
C1_Witness ==
    \E i, j, k \in MatchFrames :
        /\ i < j /\ j < k
        /\ frames[i].ret.val.function.some
        /\ ~frames[j].ret.val.function.some
        /\ frames[k].ret.val.function.some
        /\ frames[i].func.val.depth > frames[j].func.val.depth
        /\ frames[j].func.val.depth > frames[k].func.val.depth

\* how deep the entry at offset i lies, the root at 0
DieDepth(i) ==
    Cardinality({ j \in 1 .. (i - 1) : FrameEntries[j].has_children })
        - Cardinality({ j \in 1 .. (i - 1) : FrameEntries[j].tag = "null" })

\* the entry at offset b lies in the subtree of the entry at offset a
NestedIn(b, a) == a < b /\ \A j \in (a + 1) .. b : DieDepth(j) > DieDepth(a)

Named(f) == str_attr(f.entry_off, FrameEntries, "DW_AT_linkage_name").some

IsSubprogram(f) == MatchDie(f).tag = "DW_TAG_subprogram"

IsInlined(f) == MatchDie(f).tag = "DW_TAG_inlined_subroutine"

Matches == { query.res[i] : i \in 1 .. Len(query.res) }

\* the probe is covered by one named subprogram and by named inlined
\* subroutines nested inside it, every DIE matched once
OneSubprogramAndItsInlined ==
    /\ query.called
    /\ Cardinality(Matches) = Len(query.res)
    /\ \E f \in Matches :
         /\ IsSubprogram(f) /\ Named(f)
         /\ \A g \in Matches \ {f} :
              IsInlined(g) /\ Named(g) /\ NestedIn(g.entry_off, f.entry_off)

\* the coordinates DW_AT_call_file, DW_AT_call_line and DW_AT_call_column of
\* a DIE give
CallCoordinates(e, unit) ==
    LET cf == attr_value(e, "DW_AT_call_file")
        cl == attr_value(e, "DW_AT_call_line")
        cc == attr_value(e, "DW_AT_call_column")
    IN  [file |-> IF cf.some /\ cf.val.form = "FileIndex"
                     /\ cf.val.fi \in 1 .. Len(unit.inner.lnp.file_names)
                  THEN Some(render_file(unit.inner.lnp.file_names[cf.val.fi],
                                        unit.inner.comp_dir))
                  ELSE None,
         line |-> IF cl.some /\ cl.val.form = "Udata" THEN Some(cl.val.udata) ELSE None,
         column |-> IF cc.some /\ cc.val.form = "Udata" THEN Some(cc.val.udata) ELSE None]

\* C2: for a probe covered by one named subprogram and k named inlined
\* subroutines nested inside it the iterator yields k + 1 frames and then
\* the end: frame i is made of the i-th deepest match and has a function,
\* the first frame has the line-program location of the probe, every later
\* frame the call-site coordinates of the DIE of the frame before it, the
\* last frame is the subprogram, and nothing is yielded after it.
C2_InlinedChainFrames ==
    OneSubprogramAndItsInlined =>
        LET n == Len(query.res)
        IN  /\ IsSubprogram(query.res[n])
            /\ \A i \in 1 .. Len(frames) :
                 IF i > n THEN ~frames[i].ret.some
                 ELSE /\ frames[i].ret.some
                      /\ frames[i].func = Some(query.res[i])
                      /\ frames[i].ret.val.function.some
                      /\ frames[i].ret.val.location =
                           IF i = 1
                           THEN find_location_inner(query.probe,
                                    units[query.res[1].unit_id + 1].inner)
                           ELSE Some(CallCoordinates(MatchDie(query.res[i - 1]),
                                                     units[query.res[i - 1].unit_id + 1]))

\* a subprogram and two inlined subroutines, one inside the other: three
\* frames and the end have been yielded, the first frame with a location
C2_Witness ==
    /\ OneSubprogramAndItsInlined
    /\ Len(query.res) = 3
    /\ query.res[1].depth > query.res[2].depth
    /\ Len(frames) = 4
    /\ frames[1].ret.val.location.some
    /\ frames[3].ret.val.location.val.file.some
    /\ ~frames[4].ret.some

\* a trailing frame is due: no match and a location found for the probe, or
\* the last match an inlined subroutine
TrailingDue ==
    IF query.res = << >> THEN query.loc.some ELSE IsInlined(query.res[Len(query.res)])

\* C9: with n matches the iterator yields one frame per match in the sorted
\* order, then one trailing frame (function = None, location = Some) exactly
\* when there is no match and a location for the probe or the last match is
\* an inlined subroutine, and after that the end on every call: at most
\* n + 1 frames.
C9_FramesThenTrailingThenEnd ==
    query.called =>
        LET n == Len(query.res)
        IN  \A i \in 1 .. Len(frames) :
              IF i <= n
              THEN frames[i].ret.some /\ frames[i].func = Some(query.res[i])
              ELSE IF i = n + 1 /\ TrailingDue
              THEN /\ frames[i].ret.some
                   /\ ~frames[i].func.some
                   /\ ~frames[i].ret.val.function.some
                   /\ frames[i].ret.val.location.some
              ELSE ~frames[i].ret.some

\* two matches, the last an inlined subroutine: two frames, the trailing
\* frame, and the end on each of the calls made after it
C9_Witness ==
    /\ query.called
    /\ Len(query.res) = 2
    /\ TrailingDue
    /\ Len(frames) = 3 + MaxPolls
    /\ frames[3].ret.some
    /\ \A i \in 4 .. Len(frames) : ~frames[i].ret.some

(***************************************************************************)
(* Function::stack_variables_at and StackVarIter::next.                    *)
(***************************************************************************)
\* debug_loc.locations(lr, addr_size, base_addr): the entries of a location
\* list, each offset by the base address of the unit
locations(lr, base) ==
    [i \in 1 .. Len(lr) |->
        [range |-> Range((lr[i].range.begin + base) % Modulus,
                         (lr[i].range.end + base) % Modulus),
         data |-> lr[i].data]]

\* locs.find(|l| l.range.begin <= probe && l.range.end > probe)
find_loc(locs, probe) ==
    LET hits == { i \in 1 .. Len(locs) :
                    locs[i].range.begin <= probe /\ locs[i].range.end > probe }
    IN  IF hits = {} THEN None
        ELSE Some(locs[CHOOSE i \in hits : \A j \in hits : i <= j])

\* ranges.any(|r| r.begin <= probe && r.end > probe)
any_range(items, probe) ==
    \E i \in 1 .. Len(items) : items[i].begin <= probe /\ items[i].end > probe

\* Function::stack_variables_at
stack_variables_at(function, probe) ==
    [cursor |-> function.cursor, unit |-> function.unit, depth |-> 0, probe |-> probe]

\* StackVarIter::next_dfs: [it, entry], entry 0 for None
sv_next_dfs(s, entries) ==
    LET n == next_dfs(s.cursor, entries)
    IN  IF n.some
        THEN LET depth == s.depth + n.d
             IN  [it |-> [s EXCEPT !.cursor = n.cursor, !.depth = depth],
                  entry |-> IF depth > 0 THEN current(n.cursor) ELSE 0]
        ELSE [it |-> [s EXCEPT !.cursor = n.cursor], entry |-> 0]

\* StackVarIter::next_scoped_sibling: [it, entry], entry 0 for None
next_scoped_sibling(s, entries) ==
    IF s.depth = 0
    THEN sv_next_dfs(s, entries)
    ELSE LET n == next_sibling(s.cursor, entries)
         IN  IF n.some
             THEN [it |-> [s EXCEPT !.cursor = n.cursor], entry |-> current(n.cursor)]
             ELSE sv_next_dfs([s EXCEPT !.cursor = n.cursor], entries)

\* the action after a lexical block, taken for Recurse whatever its ranges
block_action_always_recurse(rr, probe) == "Recurse"

\* the action after a lexical block whose read_ranges gave rr
block_action(rr, probe) ==
    IF rr.ret = "Some"
    THEN IF any_range(rr.items, probe) THEN "Recurse" ELSE "Sibling"
    ELSE "Recurse"

RECURSIVE sv_loop(_, _, _, _)
\* the loop of StackVarIter::next: [it, ret, die, panic], die the entry the
\* StackVar was made of
sv_loop(s, action, ctx_units, b) ==
    LET unit == ctx_units[s.unit + 1]
        entries == unit.dw_unit.entries
        r == IF action = "Sibling" THEN next_scoped_sibling(s, entries)
             ELSE sv_next_dfs(s, entries)
    IN  IF r.entry = 0 THEN [it |-> r.it, ret |-> None, die |-> 0, panic |-> FALSE]
        ELSE
        LET e == entries[r.entry]
        IN  IF e.tag = "DW_TAG_variable"
            THEN LET l == attr_value(e, "DW_AT_location")
                     loc == IF l.some /\ l.val.form = "DebugLocRef"
                            THEN find_loc(locations(l.val.lr, unit.inner.base_addr), s.probe)
                            ELSE None
                 IN  IF loc.some
                     THEN [it |-> r.it, die |-> r.entry, panic |-> FALSE,
                           ret |-> Some([data |-> loc.val.data,
                                         name |-> str_attr(r.entry, entries, "DW_AT_name")])]
                     ELSE sv_loop(r.it, "Sibling", ctx_units, b)
            ELSE IF e.tag = "DW_TAG_lexical_block"
            THEN LET rr == read_ranges(e, unit.inner.base_addr, b)
                 IN  IF rr.ret = "panic"
                     THEN [it |-> r.it, ret |-> None, die |-> 0, panic |-> TRUE]
                     ELSE sv_loop(r.it, block_action(rr, s.probe), ctx_units, b)
            ELSE sv_loop(r.it, "Sibling", ctx_units, b)

\* StackVarIter::next
sv_next(s, ctx_units, b) == sv_loop(s, "Sibling", ctx_units, b)

(***************************************************************************)
(* The stack variables of a function: one unit of functions, lexical       *)
(* blocks and variables is read and queried, a function of a frame is      *)
(* asked for its variables at an address, and the iterator is advanced.    *)
(***************************************************************************)
\* the DIE at offset off of each kind: functions over [0, 4), blocks over
\* [0, 1) and [3, 4) or with no range, variables with a location list over
\* [0, 2) and [1, 3) or, at every third offset, a single expression
VarDie(t, off) ==
    CASE t.kind = "null" -> Null
      [] t.kind = "F" ->
           DIE("DW_TAG_subprogram", t.has_children,
               ("DW_AT_linkage_name" :> String(<<"fn", off>>)) @@ LowHigh(0, Addr(4)))
      [] t.kind = "LB_ranges" ->
           DIE("DW_TAG_lexical_block", t.has_children,
               "DW_AT_ranges" :> DebugRangesRef(<<Range(0, 1), Range(3, 4)>>))
      [] t.kind = "LB_none" -> DIE("DW_TAG_lexical_block", t.has_children, << >>)
      [] t.kind = "V" ->
           DIE("DW_TAG_variable", t.has_children,
               ("DW_AT_name" :> String(<<"var", off>>))
                   @@ ("DW_AT_location" :>
                         IF off % 3 = 0 THEN Exprloc(<<"expr", 0>>)
                         ELSE DebugLocRef(<<[range |-> Range(0, 2), data |-> <<"expr", 1>>],
                                            [range |-> Range(1, 3), data |-> <<"expr", 2>>]>>)))

VarBodies == UNION { Forests(n, {"V"}, {"F", "LB_ranges", "LB_none"}) : n \in 0 .. MaxBody }

VarUnitEntries(body) ==
    <<DIE("DW_TAG_compile_unit", TRUE, CommonAttrs(0) @@ LowHigh(0, Addr(4)))>>
        \o [i \in 1 .. Len(body) |-> VarDie(body[i], i + 1)] \o <<Null>>

VarProbes == {0, 1, 3}

InitVars ==
    /\ build \in Builds
    /\ \E body \in VarBodies : file_units = <<[entries |-> VarUnitEntries(body)]>>
    /\ debug_line = FrameDebugLine
    /\ ctx_status = "unbuilt"
    /\ units = << >>
    /\ unit_ranges = << >>
    /\ loc_ret = [called |-> FALSE]
    /\ RangesIdle
    /\ FramesIdle
    /\ VarsIdle
    /\ StrIdle

\* stack_variables_at makes a new StackVarIter each time, none depending on
\* another: a behaviour follows the one it makes first
StackVariablesAt ==
    /\ ~var_it.called
    /\ \E i \in 1 .. Len(frames), probe \in VarProbes :
         /\ frames[i].ret.some
         /\ frames[i].ret.val.function.some
         /\ var_it' = [called |-> TRUE, status |-> "ok",
                       anchor |-> current(frames[i].ret.val.function.val.cursor),
                       iter |-> stack_variables_at(frames[i].ret.val.function.val, probe)]
    /\ var_out' = << >>
    /\ UNCHANGED build
    /\ UNCHANGED rangeVars
    /\ UNCHANGED lightVars
    /\ UNCHANGED frameVars
    /\ UNCHANGED strVars

StackVarNext ==
    /\ var_it.called
    /\ var_it.status = "ok"
    /\ Len(SelectSeq(var_out, LAMBDA o : ~o.ret.some)) < MaxPolls
    /\ LET n == sv_next(var_it.iter, units, build)
       IN  /\ var_it' = [var_it EXCEPT !.iter = n.it,
                                       !.status = IF n.panic THEN "panic" ELSE "ok"]
           /\ var_out' = IF n.panic THEN var_out
                         ELSE Append(var_out, [ret |-> n.ret, die |-> n.die])
    /\ UNCHANGED build
    /\ UNCHANGED rangeVars
    /\ UNCHANGED lightVars
    /\ UNCHANGED frameVars
    /\ UNCHANGED strVars

NextVars ==
    ContextNew \/ ParseFunctions \/ Query \/ FrameNext \/ StackVariablesAt \/ StackVarNext

SpecVars == InitVars /\ [][NextVars]_vars

(***************************************************************************)
(* Properties of the stack variables of a function.                        *)
(***************************************************************************)
\* the yields of the sequence: those no end-of-sequence came before
BeforeEnd == { i \in 1 .. Len(var_out) : \A j \in 1 .. i : var_out[j].ret.some }

\* the lexical blocks on the path from the anchor down to the entry at v
BlocksAbove(v) ==
    { b \in 1 .. Len(FrameEntries) :
        /\ NestedIn(b, var_it.anchor)
        /\ NestedIn(v, b)
        /\ FrameEntries[b].tag = "DW_TAG_lexical_block" }

\* a range of the DIE, by DW_AT_ranges or by DW_AT_low_pc and DW_AT_high_pc,
\* covers p
Covers(e, p) ==
    LET base == units[1].inner.base_addr
    IN  IF "DW_AT_ranges" \in DOMAIN e.attrs
        THEN \E k \in 1 .. Len(e.attrs["DW_AT_ranges"].rr) :
               /\ (e.attrs["DW_AT_ranges"].rr[k].begin + base) % Modulus <= p
               /\ p < (e.attrs["DW_AT_ranges"].rr[k].end + base) % Modulus
        ELSE /\ {"DW_AT_low_pc", "DW_AT_high_pc"} \subseteq DOMAIN e.attrs
             /\ e.attrs["DW_AT_low_pc"].form = "Addr"
             /\ e.attrs["DW_AT_low_pc"].addr <= p
             /\ \/ /\ e.attrs["DW_AT_high_pc"].form = "Addr"
                   /\ p < e.attrs["DW_AT_high_pc"].addr
                \/ /\ e.attrs["DW_AT_high_pc"].form = "Udata"
                   /\ p < e.attrs["DW_AT_low_pc"].addr + e.attrs["DW_AT_high_pc"].udata

NoRangeInformation(e) ==
    DOMAIN e.attrs \cap {"DW_AT_ranges", "DW_AT_low_pc", "DW_AT_high_pc"} = {}

\* the location list of the DIE has an entry that covers p and holds data
HasLocation(e, p, data) ==
    /\ "DW_AT_location" \in DOMAIN e.attrs
    /\ e.attrs["DW_AT_location"].form = "DebugLocRef"
    /\ \E k \in 1 .. Len(e.attrs["DW_AT_location"].lr) :
         LET l == e.attrs["DW_AT_location"].lr[k]
             base == units[1].inner.base_addr
         IN  /\ (l.range.begin + base) % Modulus <= p
             /\ p < (l.range.end + base) % Modulus
             /\ l.data = data

\* C5: every StackVar of the sequence (up to its end) comes from a variable
\* DIE under the anchor function such that every lexical block on the path
\* from the anchor down to it has a range covering the probe or no range
\* information, and the location list of the variable has an entry with
\* begin <= probe < end whose expression is the one returned.
C5_YieldedUnderCoveringBlocks ==
    var_it.called =>
        \A i \in BeforeEnd :
            LET v == var_out[i].die
                p == var_it.iter.probe
            IN  /\ FrameEntries[v].tag = "DW_TAG_variable"
                /\ NestedIn(v, var_it.anchor)
                /\ \A b \in BlocksAbove(v) :
                     Covers(FrameEntries[b], p) \/ NoRangeInformation(FrameEntries[b])
                /\ HasLocation(FrameEntries[v], p, var_out[i].ret.val.data)

\* a variable under a block with ranges, one of them covering the probe, has
\* been yielded with the expression of the first of its two covering
\* entries, and the end has been reported after it
C5_Witness ==
    /\ var_it.called
    /\ \E i \in BeforeEnd :
         /\ \E b \in BlocksAbove(var_out[i].die) : ~NoRangeInformation(FrameEntries[b])
         /\ var_out[i].ret.val.data = <<"expr", 1>>
         /\ i < Len(var_out)
         /\ ~var_out[i + 1].ret.some

\* C10 as stated, its safety part: no variable DIE outside the subtree of
\* the anchor function is yielded by any sequence of next() calls, those
\* made after the end has been reported included.
C10_NoVariableOutsideAnchor ==
    var_it.called =>
        \A i \in 1 .. Len(var_out) :
            var_out[i].ret.some => NestedIn(var_out[i].die, var_it.anchor)

(***************************************************************************)
(* str_attr level by level: one unit of DIEs that may name each other, or  *)
(* themselves, as their abstract origin; str_attr is called on one of them *)
(* and its recursion is followed one call at a time.                       *)
(***************************************************************************)
\* how many DIEs the unit has under its root
MaxChain == 3
\* the depth of the recursion is counted up to here and no further
MaxDepth == 4

\* the attributes of the DIE at offset off: a linkage name or none, an
\* abstract origin at the DIE at offset o or, o being 0, none
ChainAttrs(off, named, o) ==
    (IF named THEN "DW_AT_linkage_name" :> String(<<"fn", off>>) ELSE << >>)
        @@ (IF o = 0 THEN << >> ELSE "DW_AT_abstract_origin" :> UnitRef(o))

\* the units of MaxChain DIEs, the origin of each at any DIE of the unit
ChainUnits ==
    { <<DIE("DW_TAG_compile_unit", TRUE, CommonAttrs(0) @@ LowHigh(0, Addr(4)))>>
          \o [i \in 1 .. MaxChain |->
                DIE("DW_TAG_subprogram", FALSE, ChainAttrs(i + 1, c[i][1], c[i][2]))]
          \o <<Null>> :
        c \in [1 .. MaxChain -> BOOLEAN \X ({0} \cup (2 .. (MaxChain + 1)))] }

\* str_attr adds nothing and asserts nothing: the profile plays no part
InitStrAttr ==
    /\ build = [debug_assertions |-> FALSE, overflow_checks |-> FALSE]
    /\ \E es \in ChainUnits : file_units = <<[entries |-> es]>>
    /\ debug_line = FrameDebugLine
    /\ ctx_status = "unbuilt"
    /\ units = << >>
    /\ unit_ranges = << >>
    /\ loc_ret = [called |-> FALSE]
    /\ RangesIdle
    /\ FramesIdle
    /\ VarsIdle
    /\ StrIdle

\* str_attr(entry, .., DW_AT_linkage_name) is called on a DIE of the unit
StrAttrCall ==
    /\ str_call.status = "idle"
    /\ \E e \in 2 .. (MaxChain + 1) :
         str_call' = [status |-> "running", start |-> e, entry |-> e, depth |-> 1]
    /\ UNCHANGED build
    /\ UNCHANGED rangeVars
    /\ UNCHANGED lightVars
    /\ UNCHANGED frameVars
    /\ UNCHANGED varVars

\* the innermost call of str_attr runs: it returns, and every call above it
\* with it, or it calls str_attr on the origin; nothing bounds the depth
StrAttrLevel ==
    /\ str_call.status = "running"
    /\ LET l == str_attr_level(str_call.entry, file_units[1].entries, "DW_AT_linkage_name")
       IN  str_call' =
             IF l.kind = "return"
             THEN [status |-> "returned", start |-> str_call.start, ret |-> l.ret,
                   depth |-> str_call.depth]
             ELSE IF l.kind = "call"
             THEN [str_call EXCEPT !.entry = l.entry,
                                   !.depth = IF @ < MaxDepth THEN @ + 1 ELSE @]
             ELSE [status |-> "panic", start |-> str_call.start, depth |-> str_call.depth]
    /\ UNCHANGED build
    /\ UNCHANGED rangeVars
    /\ UNCHANGED lightVars
    /\ UNCHANGED frameVars
    /\ UNCHANGED varVars

NextStrAttr == StrAttrCall \/ StrAttrLevel

\* the thread that called str_attr keeps running
SpecStrAttr == InitStrAttr /\ [][NextStrAttr]_vars /\ WF_vars(StrAttrLevel)

(***************************************************************************)
(* Properties of str_attr.                                                 *)
(***************************************************************************)
HasLinkageName(e) == "DW_AT_linkage_name" \in DOMAIN FrameEntries[e].attrs

HasOrigin(e) == "DW_AT_abstract_origin" \in DOMAIN FrameEntries[e].attrs

\* the chain ends at this DIE: it has the attribute, or no origin to go to
EndsChain(e) == HasLinkageName(e) \/ ~HasOrigin(e)

RECURSIVE OriginChain(_, _)
\* the DIE k origins away from e, 0 when the chain has ended before
OriginChain(e, k) ==
    IF k = 0 THEN e
    ELSE LET d == OriginChain(e, k - 1)
         IN  IF d = 0 \/ EndsChain(d) THEN 0
             ELSE FrameEntries[d].attrs["DW_AT_abstract_origin"].offset

\* how far from e the chain ends; a chain that has not ended after as many
\* origins as the unit has DIEs is a cycle
ChainEnds(e) ==
    { k \in 0 .. (Len(FrameEntries) - 1) :
        OriginChain(e, k) # 0 /\ EndsChain(OriginChain(e, k)) }

ChainResult(e) ==
    LET d == OriginChain(e, CHOOSE k \in ChainEnds(e) : TRUE)
    IN  IF HasLinkageName(d)
        THEN Some(FrameEntries[d].attrs["DW_AT_linkage_name"].str)
        ELSE None

\* C11: str_attr returns only when the DW_AT_abstract_origin chain from the
\* entry reaches a DIE that has the attribute or has no origin, and then it
\* returns the attribute of that DIE, the first on the chain to have it, or
\* None when that DIE has neither; a call whose chain reaches such a DIE
\* returns, and a call on a cycle of DIEs that all lack the attribute never
\* does, whatever the depth.
C11_ReturnsIffChainEnds ==
    /\ [](str_call.status = "returned" =>
            /\ ChainEnds(str_call.start) # {}
            /\ str_call.ret = ChainResult(str_call.start))
    /\ [](str_call.status = "running" /\ ChainEnds(str_call.start) # {} =>
            <>(str_call.status = "returned"))

\* a call on a cycle of two DIEs or more has gone deeper than the unit has
\* DIEs and is still running
C11_Witness ==
    /\ str_call.status = "running"
    /\ ChainEnds(str_call.start) = {}
    /\ OriginChain(str_call.start, 1) # str_call.start
    /\ str_call.depth = MaxDepth

\* a call has returned the linkage name of the DIE two origins away
C11_ReturnedThroughOrigins ==
    /\ str_call.status = "returned"
    /\ ChainEnds(str_call.start) = {2}
    /\ str_call.ret.some

(***************************************************************************)
(* The location of the first frame against find_location: two units, each  *)
(* with its own line program and one function, ranges of units and         *)
(* functions chosen apart from each other.                                 *)
(***************************************************************************)
\* the second line program: the rows of the first at other lines
BypassDebugLine ==
    FrameDebugLine \o
    <<[file_names |-> FileNames,
       sequences |-> <<LineNumberSequence(<<Row(0, 3, 20, 0), Row(2, 3, 21, 2),
                                            Row(4, 1, 0, 0)>>)>>]>>

BypassUnitRanges == { <<0, 2>>, <<2, 4>>, <<0, 4>>, <<1, 3>> }

BypassFunctionRanges == { <<0, 2>>, <<1, 3>>, <<2, 4>> }

\* unit u (0 or 1) over ur with its line program and one function over fr
BypassUnit(u, ur, fr) ==
    [entries |->
       <<DIE("DW_TAG_compile_unit", TRUE, CommonAttrs(u) @@ LowHigh(ur[1], Addr(ur[2]))),
         DIE("DW_TAG_subprogram", FALSE,
             ("DW_AT_linkage_name" :> String(<<"fn", u>>)) @@ LowHigh(fr[1], Addr(fr[2]))),
         Null>>]

InitBypass ==
    /\ build \in Builds
    /\ \E ur0 \in BypassUnitRanges, ur1 \in BypassUnitRanges,
          fr0 \in BypassFunctionRanges, fr1 \in BypassFunctionRanges :
         file_units = <<BypassUnit(0, ur0, fr0), BypassUnit(1, ur1, fr1)>>
    /\ debug_line = BypassDebugLine
    /\ ctx_status = "unbuilt"
    /\ units = << >>
    /\ unit_ranges = << >>
    /\ loc_ret = [called |-> FALSE]
    /\ RangesIdle
    /\ FramesIdle
    /\ VarsIdle
    /\ StrIdle

SpecBypass == InitBypass /\ [][NextFrames]_vars

\* the probe lies in a range the unit-range table holds for the unit of the
\* first match
InRangeOfMatchedUnit ==
    \E i \in 1 .. Len(unit_ranges) :
        unit_ranges[i][2] = query.res[1].unit_id /\ InUnitRange(i, query.probe)

\* C12 as stated: for every Full Context and every probe at which a function
\* matches, the location of the first frame of query(probe) equals
\* find_location(probe).
C12_FirstLocationIsFindLocation ==
    (query.called /\ query.res # << >> /\ frames # << >>) =>
        frames[1].ret.val.location = find_location(units, unit_ranges, query.probe)

\* C12: when the ranges of the unit-range table are pairwise disjoint and
\* the probe lies in a range the table holds for the unit of the first
\* (deepest) match, the location of the first frame of query(probe) equals
\* find_location(probe).
C12_FirstLocationIsFindLocationInOwnUnit ==
    (query.called /\ query.res # << >> /\ frames # << >>
        /\ AdjacentDisjoint /\ InRangeOfMatchedUnit) =>
        frames[1].ret.val.location = find_location(units, unit_ranges, query.probe)

\* the table holds two ranges, the first match is the function of the
\* second unit, and the first frame has the location find_location gives
C12_Witness ==
    /\ query.called /\ query.res # << >> /\ frames # << >>
    /\ Len(unit_ranges) = 2
    /\ AdjacentDisjoint /\ InRangeOfMatchedUnit
    /\ query.res[1].unit_id = 1
    /\ frames[1].ret.val.location.some
    /\ frames[1].ret.val.location = find_location(units, unit_ranges, query.probe)

====
